---- MODULE Spec2Model ----
(***************************************************************************)
(* Expense tracker (src/app.js): the ledger `expenses`, the budget map     *)
(* `budgets`, their two localStorage slots, the recurrence sweep           *)
(* migrateRecurring that runs on every page load, and the budget overview. *)
(*                                                                         *)
(* An ISO date string "YYYY-MM-DD" is the tuple <<y, m, d>> (m in 1..12);  *)
(* the order of such strings is the lexicographic order of the tuples.     *)
(* A JavaScript Date is its instant, in hours since BaseYear-01-01T00:00Z. *)
(* new Date("YYYY-MM-DD") is midnight UTC; getDate/setDate/getMonth/       *)
(* setMonth/getFullYear work on the local fields (instant + tz);           *)
(* toISOString works on the UTC fields.                                    *)
(*                                                                         *)
(* Spec starts from an empty store and follows the ledger through page     *)
(* loads, adds and deletes; SpecBudget adds the budget form; SpecStored    *)
(* opens the page on what localStorage may already hold; SpecFn calls      *)
(* computeNextDate on its own.                                             *)
(***************************************************************************)
EXTENDS Integers, Sequences, FiniteSets, TLC

\* ------------------------------------------------------------ bounds
MaxDay == 1             \* the clock runs over StartDate .. StartDate + MaxDay days
MaxInserted == 4        \* records ever inserted into the ledger (adds and clones)
MaxAdded == 2           \* accepted addExpense calls
MaxDeleted == 1         \* records ever deleted from the ledger
MaxAddedB == 2          \* accepted addExpense calls, in SpecBudget
MaxAddedS == 1          \* accepted addExpense calls, in SpecStored
FnDays == 45            \* dates computeNextDate is called on, in SpecFn

Epoch == <<2023, 1, 1>>         \* origin of the instants' time axis
StartDate == <<2024, 1, 31>>    \* the day the clock starts on
BaseYear == Epoch[1]
LastYear == BaseYear + 3        \* last year the calendar tables cover

\* ------------------------------------------------------------ calendar
IsLeap(y) == (y % 4 = 0 /\ y % 100 # 0) \/ y % 400 = 0

\* Months are 0-based, as in Date.
DaysInMonth(y, m) ==
    IF m = 1 THEN (IF IsLeap(y) THEN 29 ELSE 28)
    ELSE IF m \in {3, 5, 8, 10} THEN 30 ELSE 31

DaysInYear(y) == IF IsLeap(y) THEN 366 ELSE 365

RECURSIVE DaysBeforeYear(_)
DaysBeforeYear(y) ==
    IF y <= BaseYear THEN 0 ELSE DaysBeforeYear(y - 1) + DaysInYear(y - 1)

RECURSIVE DaysBeforeMonth(_, _)
DaysBeforeMonth(y, m) ==
    IF m <= 0 THEN 0 ELSE DaysBeforeMonth(y, m - 1) + DaysInMonth(y, m - 1)

\* The day number of the first day of each month, and the civil date of each
\* day number, tabulated once.
MonthStart ==
    [y \in BaseYear..LastYear |->
        [m \in 0..11 |-> DaysBeforeYear(y) + DaysBeforeMonth(y, m)]]

CivilOfDay ==
    [n \in 0..(DaysBeforeYear(LastYear) + DaysInYear(LastYear) - 1) |->
        LET y == CHOOSE y \in BaseYear..LastYear :
                    DaysBeforeYear(y) <= n /\ n < DaysBeforeYear(y) + DaysInYear(y)
            k == n - DaysBeforeYear(y)
            m == CHOOSE m \in 0..11 :
                    DaysBeforeMonth(y, m) <= k /\ k < DaysBeforeMonth(y, m) + DaysInMonth(y, m)
        IN <<y, m, k - DaysBeforeMonth(y, m) + 1>>]

\* ECMAScript MakeDay(year, month, date): month is 0-based and may overflow
\* past 11, date is 1-based and may overflow past the month's length.
MakeDay(y, m, d) == MonthStart[y + (m \div 12)][m % 12] + d - 1

\* ECMAScript YearFromTime / MonthFromTime / DateFromTime, on a day number.
YearFromDay(n) == CivilOfDay[n][1]
MonthFromDay(n) == CivilOfDay[n][2]
DateFromDay(n) == CivilOfDay[n][3]

\* ------------------------------------------------------------ Date objects
\* new Date("YYYY-MM-DD"): a date-only ISO string is midnight UTC.
DateParse(s) == MakeDay(s[1], s[2] - 1, s[3]) * 24

\* dateObj.toISOString().substr(0,10): the UTC calendar date.
ToISODate(t) ==
    <<YearFromDay(t \div 24), MonthFromDay(t \div 24) + 1, DateFromDay(t \div 24)>>

\* The date string of a day number, and back.
ISOOfDay(n) == ToISODate(n * 24)
DayOfISO(s) == MakeDay(s[1], s[2] - 1, s[3])

\* Local fields of a Date in a zone tz hours east of UTC.
LocalDay(t, z) == (t + z) \div 24
LocalHour(t, z) == (t + z) % 24
getFullYear(t, z) == YearFromDay(LocalDay(t, z))
getMonth(t, z) == MonthFromDay(LocalDay(t, z))
getDate(t, z) == DateFromDay(LocalDay(t, z))

\* dateObj.setDate(v) and dateObj.setMonth(v): the new instant.
setDate(t, z, v) ==
    MakeDay(getFullYear(t, z), getMonth(t, z), v) * 24 + LocalHour(t, z) - z
setMonth(t, z, v) ==
    MakeDay(getFullYear(t, z), v, getDate(t, z)) * 24 + LocalHour(t, z) - z

\* a <= b on two ISO date strings (string comparison).
StrLE(a, b) ==
    \/ a[1] < b[1]
    \/ a[1] = b[1] /\ a[2] < b[2]
    \/ a[1] = b[1] /\ a[2] = b[2] /\ a[3] <= b[3]

\* ------------------------------------------------------------ state
VARIABLES
    expenses,        \* the in-memory ledger (const expenses, line 89)
    budgets,         \* the in-memory budget map, in key insertion order (line 90)
    store,           \* localStorage: the slots "expenses" and "budgets"
    now,             \* the wall clock, an instant in hours
    tz,              \* the browser's time zone, hours east of UTC
    notifications,   \* the notifications the last page load emitted
    budgetOverview,  \* what updateBudgetOverview rendered last
    fault,           \* TRUE once a handler has thrown a TypeError
    inserted,        \* history: number of records ever inserted
    added,           \* history: number of accepted addExpense calls
    origin,          \* history: origin[i] = the addExpense call record i stems from,
                     \*          and whether record i is a clone
    call,            \* the last call of computeNextDate made on its own
    deleted,         \* history: number of records ever deleted
    lastOp,          \* history: the last operation and the ledger before it
    loading,         \* the page is being (re)loaded: the script has yet to run
    issued           \* history: the ids given to new records, in the order given

vars == <<expenses, budgets, store, now, tz, notifications, budgetOverview,
          fault, inserted, added, origin, deleted, lastOp, call, loading, issued>>

NullDate == <<>>        \* null in a date field
NullFreq == "null"      \* null in the frequency field
NoCall ==
    [made |-> FALSE, date |-> NullDate, dateObj |-> 0, frequency |-> NullFreq,
     after |-> 0, next |-> 0]

\* ------------------------------------------------------------ records
\* exp.hasOwnProperty(f).  Reading a property a record does not have gives
\* undefined, which no condition of the program takes for true.
Has(exp, f) == f \in DOMAIN exp

\* A record of the old format (line 705): it has no category.  Such a record
\* comes from JSON another version of the page wrote, and its amount is held
\* with its JavaScript type, [number |-> n] or [string |-> text]; the records
\* this program writes hold numbers.
Legacy(exp) == ~Has(exp, "category")
AmountIsString(exp) == Legacy(exp) /\ Has(exp.amount, "string")

\* ------------------------------------------------------------ recurrence
\* computeNextDate with the setters applied to dateObj itself (no copy).
computeNextDateInPlace(dateObj, frequency) ==
    LET moved == IF frequency = "daily" THEN setDate(dateObj, tz, getDate(dateObj, tz) + 1)
                 ELSE IF frequency = "weekly" THEN setDate(dateObj, tz, getDate(dateObj, tz) + 7)
                 ELSE IF frequency = "monthly" THEN setMonth(dateObj, tz, getMonth(dateObj, tz) + 1)
                 ELSE dateObj
    IN [dateObj |-> moved, next |-> moved]

\* computeNextDate(dateObj, frequency), lines 729-739.  `next` is a fresh Date
\* copied from dateObj; the setters act on next.  The result names both the
\* argument object after the call and the returned object.
computeNextDate(dateObj, frequency) ==
    LET next == dateObj
    IN [dateObj |-> dateObj,
        next |-> IF frequency = "daily" THEN setDate(next, tz, getDate(next, tz) + 1)
                 ELSE IF frequency = "weekly" THEN setDate(next, tz, getDate(next, tz) + 7)
                 ELSE IF frequency = "monthly" THEN setMonth(next, tz, getMonth(next, tz) + 1)
                 ELSE next]

\* computeNextDate(new Date(s), frequency).toISOString().substr(0,10),
\* lines 124-125 and 302-303.
nextOccurrence(s, frequency) == ToISODate(computeNextDate(DateParse(s), frequency).next)

\* new Date().toISOString().substr(0,10), line 110.
Today(t) == ToISODate(t)

\* Line 112 without the comparison with today.
IsDueWhenever(exp, today) ==
    Has(exp, "recurring") /\ exp.recurring /\ exp.nextDate # NullDate

\* The condition of line 112.
IsDue(exp, today) ==
    /\ Has(exp, "recurring") /\ exp.recurring
    /\ exp.nextDate # NullDate
    /\ StrLE(exp.nextDate, today)

\* The condition of line 114.
ShouldNotify(exp, today, p) == p = "granted"

\* new Notification('Expense Reminder', {body: name: $amount is due today.}),
\* lines 115-117; rec is the ledger position of the record it is about.
Reminder(exp, i) ==
    [title |-> "Expense Reminder", name |-> exp.name, amount |-> exp.amount, rec |-> i]

\* expenses[expenses.length-1].id + 1, lines 121 and 306: <<v>> is the value v,
\* and <<>> the TypeError of reading .id of undefined on an empty ledger.
IdAfterLast(ledger) ==
    IF Len(ledger) = 0 THEN <<>> ELSE <<ledger[Len(ledger)].id + 1>>

\* cloned.id taken from the length of the ledger.
CloneIdFromLength(ledger) == <<Len(ledger)>>

\* cloned.id, line 121.
CloneId(ledger) == IdAfterLast(ledger)

\* The clone with its nextDate computed from the source's date.
ClonedFromDate(exp, id) ==
    [exp EXCEPT !.id = id,
                !.date = exp.nextDate,
                !.nextDate = nextOccurrence(exp.date, exp.frequency)]

\* The clone of lines 120-125.
Cloned(exp, id) ==
    [exp EXCEPT !.id = id,
                !.date = exp.nextDate,
                !.nextDate = nextOccurrence(exp.nextDate, exp.frequency)]

\* The push with the source's date advanced along with its nextDate.
PushAndRedate(ledger, i, cloned) ==
    Append([ledger EXCEPT ![i].nextDate = cloned.nextDate, ![i].date = cloned.date],
           cloned)

\* The push without the advance of the source (line 128 left out).
PushOnly(ledger, i, cloned) == Append(ledger, cloned)

\* expenses.push(cloned); exp.nextDate = cloned.nextDate, lines 126-128, for
\* the record exp at position i.
PushAndAdvance(ledger, i, cloned) ==
    Append([ledger EXCEPT ![i].nextDate = cloned.nextDate], cloned)

\* The body of the forEach of lines 111-130 for the snapshot's elements
\* i..Len(snapshot).  The snapshot holds the ledger's own objects, so element i
\* is read from the ledger; st.origin follows the ledger.
RECURSIVE SweepFrom(_, _, _, _, _)
SweepFrom(st, snapshot, i, today, p) ==
    IF i > Len(snapshot) \/ st.fault THEN st
    ELSE LET exp == st.expenses[i] IN
         IF ~IsDue(exp, today) THEN SweepFrom(st, snapshot, i + 1, today, p)
         ELSE LET notes == IF ShouldNotify(exp, today, p)
                              THEN Append(st.notes, Reminder(exp, i)) ELSE st.notes
                  id == CloneId(st.expenses)
              IN IF id = <<>>
                    THEN [st EXCEPT !.notes = notes, !.fault = TRUE]
                    ELSE LET cloned == Cloned(exp, id[1])
                         IN SweepFrom(
                              [expenses |-> PushAndAdvance(st.expenses, i, cloned),
                               origin |-> Append(st.origin, [st.origin[i] EXCEPT !.clone = TRUE]),
                               notes |-> notes,
                               fault |-> FALSE],
                              snapshot, i + 1, today, p)

\* migrateRecurring(), lines 109-132, on the ledger just loaded.
migrateRecurring(ledger, org, t, p) ==
    SweepFrom([expenses |-> ledger, origin |-> org, notes |-> <<>>, fault |-> FALSE],
              ledger, 1, Today(t), p)

\* ------------------------------------------------------------ budgets
\* A JavaScript number that may be NaN: num/den with den > 0.
Num(n, d) == [nan |-> FALSE, num |-> n, den |-> d]
NaN == [nan |-> TRUE, num |-> 0, den |-> 1]
GE(x, k) == ~x.nan /\ x.num >= k * x.den
GT(x, k) == ~x.nan /\ x.num > k * x.den

\* Math.min((spent / budgetAmount) * 100, 100), line 643.
Percentage(spent, budgetAmount) ==
    IF budgetAmount > 0 THEN
        (IF spent >= budgetAmount THEN Num(100, 1) ELSE Num(100 * spent, budgetAmount))
    ELSE IF budgetAmount < 0 THEN Num((-100) * spent, (-1) * budgetAmount)
    ELSE IF spent = 0 THEN NaN      \* 0 / 0
    ELSE Num(100, 1)                \* Infinity, clamped by Math.min

\* lines 622-630: the sum of amount over the records of category cat whose
\* date, read as a local Date, falls in month m of year y.
InMonth(expense, m, y) ==
    LET expenseDate == DateParse(expense.date)
    IN getMonth(expenseDate, tz) = m /\ getFullYear(expenseDate, tz) = y

RECURSIVE currentMonthExpenses(_, _, _, _)
currentMonthExpenses(ledger, cat, m, y) ==
    IF ledger = <<>> THEN 0
    ELSE currentMonthExpenses(Tail(ledger), cat, m, y)
         + (IF InMonth(Head(ledger), m, y) /\ Has(Head(ledger), "category")
               /\ Head(ledger).category = cat
            THEN Head(ledger).amount ELSE 0)

\* The classes with each threshold itself left in the class below.
StatusClassAbove(percentage) ==
    IF GT(percentage, 90) THEN "danger"
    ELSE IF GT(percentage, 75) THEN "warning"
    ELSE ""

\* lines 646-651 and 669.
StatusClass(percentage) ==
    IF GE(percentage, 90) THEN "danger"
    ELSE IF GE(percentage, 75) THEN "warning"
    ELSE ""

\* One budget item, lines 639-675.
BudgetItem(ledger, entry, m, y) ==
    LET budgetAmount == entry.amount
        spent == currentMonthExpenses(ledger, entry.category, m, y)
        percentage == Percentage(spent, budgetAmount)
    IN [category |-> entry.category,
        budgetAmount |-> budgetAmount,
        spent |-> spent,
        remaining |-> budgetAmount - spent,
        percentage |-> percentage,
        statusClass |-> StatusClass(percentage),
        alert |-> GE(percentage, 90),
        month |-> m, year |-> y]

\* updateBudgetOverview(), lines 611-683: one item per key of budgets, in key
\* order; nothing when no budget is set (lines 633-636).
updateBudgetOverview(ledger, bmap, t) ==
    LET currentMonth == getMonth(t, tz)
        currentYear == getFullYear(t, tz)
    IN [i \in 1..Len(bmap) |-> BudgetItem(ledger, bmap[i], currentMonth, currentYear)]

\* ------------------------------------------------------------ number fields
\* The value of a number field is text: a sequence of characters.  The texts
\* of this model are made of digits, a sign and letters.
Digits == <<"0", "1", "2", "3", "4", "5", "6", "7", "8", "9">>
IsDigit(c) == \E i \in 1..Len(Digits) : Digits[i] = c
DigitValue(c) == (CHOOSE i \in 1..Len(Digits) : Digits[i] = c) - 1

\* The number of digits of text from position i on, and the value of the
\* digits text[i..j].
RECURSIVE DigitRun(_, _)
DigitRun(text, i) ==
    IF i <= Len(text) /\ IsDigit(text[i]) THEN 1 + DigitRun(text, i + 1) ELSE 0

RECURSIVE Decimal(_, _, _)
Decimal(text, i, j) ==
    IF j < i THEN 0 ELSE 10 * Decimal(text, i, j - 1) + DigitValue(text[j])

\* parseFloat(text), lines 298 and 592: the longest prefix of text that is a
\* numeral, whatever follows it, and NaN when there is none.
parseFloat(text) ==
    LET signed == text # <<>> /\ (text[1] = "-" \/ text[1] = "+")
        first == IF signed THEN 2 ELSE 1
        n == DigitRun(text, first)
        value == Decimal(text, first, first + n - 1)
    IN IF n = 0 THEN NaN
       ELSE Num(IF signed /\ text[1] = "-" THEN 0 - value ELSE value, 1)

\* The conversion with the sign of the numeral dropped.
ToNumberUnsigned(text) ==
    LET signed == text # <<>> /\ (text[1] = "-" \/ text[1] = "+")
        first == IF signed THEN 2 ELSE 1
    IN IF text = <<>> THEN Num(0, 1)
       ELSE IF DigitRun(text, first) = Len(text) - (first - 1)
            THEN Num(Decimal(text, first, Len(text)), 1)
       ELSE NaN

\* The number a string is converted to when it is compared with a number
\* (amount > 0 of line 289): the whole text must be a numeral, and the empty
\* text is 0.
ToNumber(text) ==
    LET signed == text # <<>> /\ (text[1] = "-" \/ text[1] = "+")
        first == IF signed THEN 2 ELSE 1
    IN IF text = <<>> THEN Num(0, 1)
       ELSE IF DigitRun(text, first) = Len(text) - (first - 1) THEN parseFloat(text)
       ELSE NaN

\* The number held by a field of a record or of the budgets.
NumberValue(x) == IF x.nan THEN NaN ELSE x.num

\* ------------------------------------------------------------ handlers
\* The new id without the guard on the length, and as the length plus one.
NewIdUnguarded(ledger) == IdAfterLast(ledger)
NewIdFromLength(ledger) == <<Len(ledger) + 1>>

\* id: expenses.length > 0 ? expenses[expenses.length - 1].id + 1 : 1, line 306.
NewId(ledger) == IF Len(ledger) > 0 THEN IdAfterLast(ledger) ELSE <<1>>

\* The condition of lines 283-291 without its last conjunct.
FormValidAnyAmount(form) ==
    /\ form.category # "chooseOne"
    /\ form.subcategory # "chooseOne"
    /\ form.paymentType # "chooseOne"
    /\ form.name # ""
    /\ form.date # NullDate

\* The condition of lines 283-291 on the form's values.
FormValid(form) ==
    /\ form.category # "chooseOne"
    /\ form.subcategory # "chooseOne"
    /\ form.paymentType # "chooseOne"
    /\ form.name # ""
    /\ form.date # NullDate
    /\ GT(ToNumber(form.amount), 0)

\* The record of lines 277-307 with nextDate computed whether or not the
\* expense is recurring.
NewExpenseAlwaysNext(form, id) ==
    LET frequency == IF form.recurring THEN form.recurrence ELSE NullFreq
    IN [category |-> form.category,
        subcategory |-> form.subcategory,
        paymentType |-> form.paymentType,
        name |-> form.name,
        date |-> form.date,
        amount |-> NumberValue(parseFloat(form.amount)),
        recurring |-> form.recurring,
        frequency |-> frequency,
        nextDate |-> nextOccurrence(form.date, frequency),
        id |-> id]

\* The record of lines 277-307.
NewExpense(form, id) ==
    LET frequency == IF form.recurring THEN form.recurrence ELSE NullFreq
    IN [category |-> form.category,
        subcategory |-> form.subcategory,
        paymentType |-> form.paymentType,
        name |-> form.name,
        date |-> form.date,
        amount |-> NumberValue(parseFloat(form.amount)),
        recurring |-> form.recurring,
        frequency |-> frequency,
        nextDate |-> IF form.recurring THEN nextOccurrence(form.date, frequency)
                     ELSE NullDate,
        id |-> id]

\* splice(id, 1) for the loop: the id taken for an index of the ledger.
SpliceAtId(st, i, id) ==
    IF id + 1 \in i..Len(st.expenses)
    THEN [expenses |-> SubSeq(st.expenses, 1, id)
                       \o SubSeq(st.expenses, id + 2, Len(st.expenses)),
          origin |-> SubSeq(st.origin, 1, id)
                     \o SubSeq(st.origin, id + 2, Len(st.origin))]
    ELSE st

\* The loop of lines 384-388: splice(i, 1) shifts the rest left and the loop
\* still advances i.  st.origin follows the ledger.
RECURSIVE SpliceFrom(_, _, _)
SpliceFrom(st, i, id) ==
    IF i > Len(st.expenses) THEN st
    ELSE IF st.expenses[i].id = id
         THEN SpliceFrom([expenses |-> SubSeq(st.expenses, 1, i - 1)
                                       \o SubSeq(st.expenses, i + 1, Len(st.expenses)),
                          origin |-> SubSeq(st.origin, 1, i - 1)
                                     \o SubSeq(st.origin, i + 1, Len(st.origin))],
                         i + 1, id)
         ELSE SpliceFrom(st, i + 1, id)

\* The ceiling added as a new entry whether or not the category has one.
PutBudgetAppend(bmap, category, amount) ==
    Append(bmap, [category |-> category, amount |-> amount])

\* budgets[category] = amount, line 596: an existing key keeps its place, a
\* new key goes last.
PutBudget(bmap, category, amount) ==
    IF \E i \in 1..Len(bmap) : bmap[i].category = category
    THEN [i \in 1..Len(bmap) |->
             IF bmap[i].category = category THEN [bmap[i] EXCEPT !.amount = amount]
             ELSE bmap[i]]
    ELSE Append(bmap, [category |-> category, amount |-> amount])

\* localStorage.setItem(key, JSON.stringify(value)) skipped.
setItemDropped(st, key, value) == st

\* localStorage.setItem(key, JSON.stringify(value)), lines 131, 311, 390, 597
\* and 718: the slot holds the whole value.
setItem(st, key, value) == [st EXCEPT ![key] = value]

\* amount.toFixed(2) of line 368 throws a TypeError on a string; with no filter
\* set showExpenses renders every record.
showExpensesThrows(ledger) == \E i \in 1..Len(ledger) : AmountIsString(ledger[i])

\* The condition of line 705.
NeedsMigration(ledger) == Len(ledger) > 0 /\ ~Has(ledger[1], "category")

\* parseFloat(expense.amount), line 713: a number is converted to its text
\* first and parses to itself.
ParsedAmount(expense) ==
    IF ~Legacy(expense) THEN expense.amount
    ELSE IF AmountIsString(expense) THEN NumberValue(parseFloat(expense.amount.string))
    ELSE expense.amount.number

\* The record of lines 707-715.
MigratedExpense(expense) ==
    [category |-> "Other",
     subcategory |-> "Miscellaneous",
     paymentType |-> IF Has(expense, "type") /\ expense.type # "" THEN expense.type
                     ELSE "Other",
     name |-> expense.name,
     date |-> expense.date,
     amount |-> ParsedAmount(expense),
     id |-> expense.id]

\* expenses.map(...) of lines 706-716, on every record of the ledger.
migrateOldData(ledger) == [i \in 1..Len(ledger) |-> MigratedExpense(ledger[i])]

Op(name, pre, arg) == [op |-> name, pre |-> pre, arg |-> arg]

\* ------------------------------------------------------------ inputs
TimeZones == {-5, 0}
Permissions == {"default", "granted"}
NowHours == {12}
Clock ==
    {(DayOfISO(StartDate) + k) * 24 + h :
        k \in 0..MaxDay, h \in NowHours}

Categories == {"Food & Dining", "Other"}
FirstSubcategory(c) == IF c = "Other" THEN "Miscellaneous" ELSE "Groceries"

BaseForm ==
    [category |-> "Food & Dining", subcategory |-> "Groceries", paymentType |-> "Cash",
     name |-> "rent", date |-> StartDate, amount |-> <<"4", "5">>,
     recurring |-> FALSE, recurrence |-> "daily"]

OneOff(c, d) ==
    [BaseForm EXCEPT !.category = c, !.subcategory = FirstSubcategory(c), !.date = d]
Recurring(f, d) ==
    [BaseForm EXCEPT !.recurring = TRUE, !.recurrence = f, !.date = d]

InvalidForms ==
    {[BaseForm EXCEPT !.category = "chooseOne", !.subcategory = "chooseOne"],
     [BaseForm EXCEPT !.subcategory = "chooseOne"],
     [BaseForm EXCEPT !.paymentType = "chooseOne"],
     [BaseForm EXCEPT !.name = ""],
     [BaseForm EXCEPT !.date = NullDate],
     [BaseForm EXCEPT !.amount = <<"0">>],
     [BaseForm EXCEPT !.amount = <<"-", "4", "5">>, !.recurring = TRUE],
     [BaseForm EXCEPT !.amount = <<>>],
     [BaseForm EXCEPT !.amount = <<"a", "b", "c">>]}

\* What the user submits in Spec: a one-off expense, recurring ones dated
\* yesterday and a week ago, and forms with one field left out.
Forms ==
    {OneOff("Other", StartDate),
     Recurring("daily", <<2024, 1, 30>>),
     Recurring("weekly", <<2024, 1, 24>>)}
    \cup InvalidForms
\* The category and the text of the amount of a budget form with no category
\* chosen or with an amount that is not a positive number.
InvalidBudgetInputs ==
    {<<"", <<"1", "0", "0">>>>, <<"Other", <<"0">>>>, <<"Other", <<"-", "5">>>>,
     <<"Other", <<>>>>, <<"Other", <<"a", "b", "c">>>>}

\* What the user submits in SpecBudget: one-off expenses in two categories, two
\* months and two years (and the forms with one field left out).
FormsB ==
    {OneOff("Food & Dining", StartDate),
     OneOff("Food & Dining", <<2024, 2, 1>>),
     OneOff("Food & Dining", <<2023, 2, 2>>),
     OneOff("Other", <<2024, 2, 1>>)}
\* The arguments of computeNextDate in SpecFn: every date of FnDays + 1
\* consecutive days from FnStart, and the frequencies of the form, null and
\* two values that are none of them.
FnStart == <<2024, 1, 20>>
FnDates == {ISOOfDay(DayOfISO(FnStart) + k) : k \in 0..FnDays}
Frequencies == {"daily", "weekly", "monthly", "yearly", "", NullFreq}

BudgetInputsB ==
    {<<"Food & Dining", <<"1", "0", "0">>>>, <<"Food & Dining", <<"5", "0">>>>,
     <<"Other", <<"6", "0">>>>}

\* What localStorage may hold when the page is opened, SpecStored: a ledger of
\* the old format with number or with string amounts, a ledger with a record
\* of the old format after one of the new format, ceilings of 0 with one
\* expense of this month, and a recurring record with a frequency that is none
\* of daily, weekly, monthly, due since yesterday.
LegacyExpense(id, type, amount) ==
    [type |-> type, name |-> "rent", date |-> StartDate, amount |-> amount, id |-> id]

LegacyNumbers ==
    <<LegacyExpense(1, "Cash", [number |-> 45]), LegacyExpense(2, "", [number |-> 45])>>
LegacyStrings ==
    <<LegacyExpense(1, "Cash", [string |-> <<"4", "5">>])>>
ZeroCeilings ==
    <<[category |-> "Food & Dining", amount |-> 0], [category |-> "Other", amount |-> 0]>>
\* A ledger whose first record has a category and whose second has none.
LegacyAfterNew ==
    <<NewExpense(OneOff("Food & Dining", StartDate), 1),
      LegacyExpense(2, "Cash", [number |-> 45])>>
YearlyDue ==
    [NewExpense(OneOff("Other", <<2024, 1, 30>>), 1)
        EXCEPT !.recurring = TRUE, !.frequency = "yearly", !.nextDate = <<2024, 1, 30>>]

PersistedStates ==
    {[expenses |-> LegacyNumbers, budgets |-> <<>>],
     [expenses |-> LegacyStrings, budgets |-> <<>>],
     [expenses |-> LegacyAfterNew, budgets |-> <<>>],
     [expenses |-> <<NewExpense(OneOff("Food & Dining", StartDate), 1)>>,
      budgets |-> ZeroCeilings],
     [expenses |-> <<YearlyDue>>, budgets |-> <<>>]}

FormsStored ==
    {OneOff("Food & Dining", StartDate), Recurring("daily", <<2024, 1, 30>>),
     [BaseForm EXCEPT !.name = ""]}
BudgetInputsStored == {<<"Other", <<"1", "0", "0">>>>}

\* deleteExpense is called from the Delete link of a row of the table (line
\* 369), with the id of the record of that row: a row of the table as it is
\* now, or a row rendered for a record added in this run, which the ledger may
\* hold no more.
DeleteLinks ==
    {expenses[i].id : i \in 1..Len(expenses)} \cup {issued[k] : k \in 1..Len(issued)}

\* Every id a record can have: the ids of a persisted ledger and one more for
\* each insertion.
Ids == 1..(Len(LegacyNumbers) + MaxInserted)

\* ------------------------------------------------------------ actions
\* The ledger, the budgets and the store as they are when a handler starts.
Shown == [expenses |-> expenses, budgets |-> budgets, store |-> store]

Init ==
    /\ expenses = <<>>
    /\ budgets = <<>>
    /\ store = [expenses |-> <<>>, budgets |-> <<>>]
    /\ now \in {t \in Clock : \A u \in Clock : t \div 24 <= u \div 24}
    /\ tz \in TimeZones
    /\ notifications = <<>>
    /\ budgetOverview = <<>>
    /\ fault = FALSE
    /\ inserted = 0
    /\ added = 0
    /\ origin = <<>>
    /\ deleted = 0
    /\ lastOp = Op("init", <<>>, <<>>)
    /\ call = NoCall
    /\ loading = FALSE
    /\ issued = <<>>

\* The script from top to bottom, lines 89-100, 139-154 and 742-743: the ledger
\* and the budgets are read from localStorage, initializePage runs the sweep,
\* which saves the ledger, and renders; migrateOldData runs last, and only when
\* initializePage has returned.  perm is the value of Notification.permission
\* at that moment.  window.location.reload() leaves the page loading, and the
\* load is this same script run again.
PageLoad(perm) ==
    LET r == migrateRecurring(store.expenses, origin, now, perm)
        appended == Len(r.expenses) - Len(store.expenses)
        swept == IF r.fault THEN store ELSE setItem(store, "expenses", r.expenses)
        thrown == r.fault \/ showExpensesThrows(r.expenses)
        migrating == ~thrown /\ NeedsMigration(r.expenses)
    IN /\ inserted + appended <= MaxInserted
       /\ expenses' = r.expenses
       /\ budgets' = store.budgets
       /\ store' = IF migrating THEN setItem(swept, "expenses", migrateOldData(r.expenses))
                   ELSE swept
       /\ loading' = migrating
       /\ notifications' = r.notes
       /\ budgetOverview' = IF thrown THEN <<>>
                            ELSE updateBudgetOverview(r.expenses, store.budgets, now)
       /\ fault' = (fault \/ thrown)
       /\ inserted' = inserted + appended
       /\ origin' = r.origin
       /\ issued' = issued \o [k \in 1..appended |-> r.expenses[Len(store.expenses) + k].id]
       /\ lastOp' = Op("load", store.expenses,
                       [today |-> Today(now), perm |-> perm, budgets |-> store.budgets])
       /\ UNCHANGED <<call, now, tz, added, deleted>>

\* addExpense(e), lines 267-321; at most maxAdded calls are accepted.
AddExpense(form, maxAdded) ==
    /\ ~loading
    /\ IF FormValid(form)
       THEN /\ inserted < MaxInserted
            /\ added < maxAdded
            /\ LET id == NewId(expenses)
               IN IF id = <<>>
                  THEN /\ fault' = TRUE
                       /\ UNCHANGED <<expenses, store, budgetOverview, inserted, added, origin,
                                      issued>>
                  ELSE /\ expenses' = Append(expenses, NewExpense(form, id[1]))
                       /\ store' = setItem(store, "expenses", expenses')
                       /\ budgetOverview' = IF showExpensesThrows(expenses') THEN budgetOverview
                                            ELSE updateBudgetOverview(expenses', budgets, now)
                       /\ inserted' = inserted + 1
                       /\ added' = added + 1
                       /\ origin' = Append(origin, [add |-> added + 1, clone |-> FALSE])
                       /\ issued' = Append(issued, id[1])
                       /\ fault' = (fault \/ showExpensesThrows(expenses'))
            /\ lastOp' = Op("add", expenses, form)
            /\ UNCHANGED <<call, loading, budgets, now, tz, notifications, deleted>>
       ELSE /\ lastOp' = Op("rejected", Shown, "Please fill in all fields correctly.")
            /\ UNCHANGED <<call, loading, issued, expenses, budgets, store, now, tz, notifications,
                           budgetOverview, fault, inserted, added, origin, deleted>>

\* deleteExpense(id), lines 383-396.
DeleteExpense(id) ==
    LET r == SpliceFrom([expenses |-> expenses, origin |-> origin], 1, id)
    IN /\ ~loading
       /\ id \in DeleteLinks
       /\ expenses' = r.expenses
       /\ origin' = r.origin
       /\ store' = setItem(store, "expenses", r.expenses)
       /\ budgetOverview' = IF showExpensesThrows(r.expenses) THEN budgetOverview
                            ELSE updateBudgetOverview(r.expenses, budgets, now)
       /\ fault' = (fault \/ showExpensesThrows(r.expenses))
       /\ deleted' = deleted + (Len(expenses) - Len(r.expenses))
       /\ deleted' <= MaxDeleted
       /\ lastOp' = Op("delete", expenses, id)
       /\ UNCHANGED <<call, loading, issued, budgets, now, tz, notifications, inserted, added>>

\* setBudget(), lines 591-604; text is the value of the amount field.
SetBudget(category, text) ==
    LET amount == parseFloat(text) IN
    /\ ~loading
    /\ IF category # "" /\ GT(amount, 0)
       THEN /\ budgets' = PutBudget(budgets, category, NumberValue(amount))
            /\ store' = setItem(store, "budgets", budgets')
            /\ budgetOverview' = updateBudgetOverview(expenses, budgets', now)
            /\ lastOp' = Op("budget", expenses,
                            [category |-> category, text |-> text,
                             amount |-> NumberValue(amount), was |-> budgets])
            /\ UNCHANGED <<call, loading, issued, expenses, now, tz, notifications, fault,
                           inserted, added, origin, deleted>>
       ELSE /\ lastOp' = Op("rejected", Shown,
                            "Please select a category and enter a valid budget amount")
            /\ UNCHANGED <<call, loading, issued, expenses, budgets, store, now, tz, notifications,
                           budgetOverview, fault, inserted, added, origin, deleted>>

\* updateBudgetOverview() keeping in the ledger only the records it has summed.
UpdateBudgetOverviewFiltering ==
    /\ ~loading
    /\ budgetOverview' = updateBudgetOverview(expenses, budgets, now)
    /\ expenses' = SelectSeq(expenses,
                             LAMBDA e : InMonth(e, getMonth(now, tz), getFullYear(now, tz)))
    /\ lastOp' = Op("overview", Shown, <<>>)
    /\ UNCHANGED <<call, loading, issued, budgets, store, now, tz, notifications,
                   fault, inserted, added, origin, deleted>>

\* updateBudgetOverview() called on its own, lines 611-683: it assigns to its
\* own locals and to the budget overview element only.
UpdateBudgetOverviewCall ==
    /\ ~loading
    /\ budgetOverview' = updateBudgetOverview(expenses, budgets, now)
    /\ lastOp' = Op("overview", Shown, <<>>)
    /\ UNCHANGED <<call, loading, issued, expenses, budgets, store, now, tz, notifications,
                   fault, inserted, added, origin, deleted>>

\* Time passes between two events.
Tick ==
    /\ ~loading
    /\ now' \in {t \in Clock : t > now}
    /\ UNCHANGED <<call, loading, issued, expenses, budgets, store, tz, notifications,
                   budgetOverview, fault, inserted, added, origin, deleted, lastOp>>

\* The ledger and the recurrence sweep: page loads, adds, deletes and the
\* clock, from an empty store.
Next ==
    \/ \E perm \in Permissions : PageLoad(perm)
    \/ \E form \in Forms : AddExpense(form, MaxAdded)
    \/ \E id \in Ids : DeleteExpense(id)
    \/ Tick

Spec == Init /\ [][Next]_vars

\* The budgets: every handler, from an empty store, with one-off expenses.
NextB ==
    \/ PageLoad("default")
    \/ \E form \in FormsB \cup InvalidForms : AddExpense(form, MaxAddedB)
    \/ \E id \in Ids : DeleteExpense(id)
    \/ \E b \in BudgetInputsB \cup InvalidBudgetInputs : SetBudget(b[1], b[2])
    \/ Tick

SpecBudget == Init /\ [][NextB]_vars

\* The page opened on what an earlier session or an earlier version left in
\* localStorage; nothing has been inserted in this run.
InitStored ==
    /\ expenses = <<>>
    /\ budgets = <<>>
    /\ store \in PersistedStates
    /\ now \in {t \in Clock : \A u \in Clock : t \div 24 <= u \div 24}
    /\ tz \in TimeZones
    /\ notifications = <<>>
    /\ budgetOverview = <<>>
    /\ fault = FALSE
    /\ inserted = 0
    /\ added = 0
    /\ origin = [i \in 1..Len(store.expenses) |-> [add |-> 0, clone |-> FALSE]]
    /\ deleted = 0
    /\ lastOp = Op("init", <<>>, <<>>)
    /\ call = NoCall
    /\ loading = TRUE
    /\ issued = <<>>

NextStored ==
    \/ PageLoad("default")
    \/ \E form \in FormsStored : AddExpense(form, MaxAddedS)
    \/ \E id \in Ids : DeleteExpense(id)
    \/ \E b \in BudgetInputsStored : SetBudget(b[1], b[2])
    \/ UpdateBudgetOverviewCall
    \/ Tick

SpecStored == InitStored /\ [][NextStored]_vars

\* computeNextDate on its own: new Date(s) for a date string s, and a frequency.
ComputeNextDateCall(s, frequency) ==
    /\ call' = LET r == computeNextDate(DateParse(s), frequency)
               IN [made |-> TRUE, date |-> s, dateObj |-> DateParse(s),
                   frequency |-> frequency, after |-> r.dateObj, next |-> r.next]
    /\ UNCHANGED <<expenses, budgets, store, now, tz, notifications, budgetOverview,
                   fault, inserted, added, origin, deleted, lastOp, loading, issued>>

NextFn == \E s \in FnDates, f \in Frequencies : ComputeNextDateCall(s, f)

SpecFn == Init /\ [][NextFn]_vars

\* ------------------------------------------------------------ properties
\* What the claims speak of, stated on the ledger itself.
Pre == lastOp.pre
SweptToday == lastOp.arg.today
AfterLoad == lastOp.op = "load"
AfterAdd == lastOp.op = "add" /\ Len(expenses) = Len(Pre) + 1

\* a record is due: recurring, nextDate set, nextDate <= today.
DueRecord(rec, today) ==
    /\ rec.recurring
    /\ rec.nextDate # NullDate
    /\ \/ rec.nextDate[1] < today[1]
       \/ rec.nextDate[1] = today[1] /\ rec.nextDate[2] < today[2]
       \/ rec.nextDate[1] = today[1] /\ rec.nextDate[2] = today[2]
          /\ rec.nextDate[3] <= today[3]

\* The positions of the due records of a ledger, in ledger order.
DuePositions(ledger, today) ==
    SelectSeq([i \in 1..Len(ledger) |-> i], LAMBDA i : DueRecord(ledger[i], today))

MaxIdOf(ledger) ==
    IF ledger = <<>> THEN 0
    ELSE CHOOSE m \in {ledger[i].id : i \in 1..Len(ledger)} :
            \A i \in 1..Len(ledger) : ledger[i].id <= m

\* The date k days after the date s.
PlusDays(s, k) == ISOOfDay(DayOfISO(s) + k)

\* A sweep of the current ledger with the today and the permission of the
\* last page load.
SecondRun ==
    SweepFrom([expenses |-> expenses, origin |-> origin, notes |-> <<>>, fault |-> FALSE],
              expenses, 1, SweptToday, lastOp.arg.perm)

\* C1: however many page loads have run, no two records cloned from the same
\* added expense carry the same date (one materialized occurrence per due date).
C1_OncePerDueDate ==
    \A i, j \in 1..Len(expenses) :
        (i < j /\ origin[i].clone /\ origin[j].clone /\ origin[i].add = origin[j].add)
            => expenses[i].date # expenses[j].date

\* C2 as stated: right after a sweep, a second sweep with the same today
\* appends nothing.
C2_SecondRunAppendsNothing ==
    AfterLoad => SecondRun.expenses = expenses

\* Every record that was due before the last sweep is at most one period
\* behind: its next occurrence is later than the sweep's today.
OnePeriodBehindAtMost ==
    \A i \in 1..Len(Pre) :
        DueRecord(Pre[i], SweptToday)
            => ~StrLE(nextOccurrence(Pre[i].nextDate, Pre[i].frequency), SweptToday)

\* C2, amended: when every record due in the first sweep is at most one period
\* behind, a second sweep with the same today appends nothing and changes
\* nothing.
C2_Idempotent ==
    (AfterLoad /\ OnePeriodBehindAtMost) => SecondRun.expenses = expenses

C2_Witness ==
    /\ AfterLoad
    /\ OnePeriodBehindAtMost
    /\ DuePositions(Pre, SweptToday) # <<>>
    /\ Len(expenses) > Len(Pre)

\* C3: a sweep appends exactly one record per record that was due before it
\* (the k-th appended record is dated with the k-th due record's nextDate) and
\* none for any other record, however far behind the due record is.
C3_OnePerDueRecord ==
    AfterLoad =>
        LET due == DuePositions(Pre, SweptToday)
        IN /\ Len(expenses) = Len(Pre) + Len(due)
           /\ \A k \in 1..Len(due) :
                 expenses[Len(Pre) + k].date = Pre[due[k]].nextDate

\* A daily record two occurrences behind got one clone.
C3_Witness ==
    /\ AfterLoad
    /\ Len(expenses) = Len(Pre) + 1
    /\ \E i \in 1..Len(Pre) :
          /\ DueRecord(Pre[i], SweptToday)
          /\ Pre[i].frequency = "daily"
          /\ StrLE(PlusDays(Pre[i].nextDate, 1), SweptToday)
          /\ DueRecord(expenses[i], SweptToday)

\* C4: the clone of a due record equals it but for id (one more than the
\* greatest id then in the ledger), date (the source's previous nextDate) and
\* nextDate (nextOccurrence of that previous nextDate), and the source's
\* nextDate ends equal to the clone's.
C4_CloneConstruction ==
    AfterLoad =>
        LET due == DuePositions(Pre, SweptToday)
        IN \A k \in 1..Len(due) :
              LET src == Pre[due[k]]
                  clone == expenses[Len(Pre) + k]
                  nxt == nextOccurrence(src.nextDate, src.frequency)
              IN /\ Len(expenses) >= Len(Pre) + k
                 /\ clone = [src EXCEPT !.id = MaxIdOf(Pre) + k,
                                        !.date = src.nextDate,
                                        !.nextDate = nxt]
                 /\ expenses[due[k]] = [src EXCEPT !.nextDate = nxt]

\* A weekly record due a week after its date: the clone is dated with that
\* day and both records are next due seven days later.
C4_Witness ==
    /\ AfterLoad
    /\ \E i \in 1..Len(Pre) :
          /\ Pre[i].frequency = "weekly"
          /\ DueRecord(Pre[i], SweptToday)
          /\ Pre[i].nextDate = PlusDays(Pre[i].date, 7)
          /\ expenses[i].nextDate = PlusDays(Pre[i].date, 14)
          /\ expenses[Len(expenses)].date = Pre[i].nextDate
          /\ expenses[Len(expenses)].nextDate = PlusDays(Pre[i].date, 14)

\* C5: while nothing has been deleted the ids in ledger order are 1, 2, ..., n
\* and n is the number of records inserted.
C5_IdsCountInsertions ==
    deleted = 0 =>
        /\ Len(expenses) = inserted
        /\ \A i \in 1..Len(expenses) : expenses[i].id = i

C5_Witness ==
    /\ deleted = 0
    /\ added >= 2
    /\ inserted > added
    /\ MaxIdOf(expenses) = inserted

\* C6: the ids are strictly increasing in ledger order, and every id assigned
\* by addExpense or by the sweep is one more than the greatest id in the ledger
\* at that moment, or 1 on an empty ledger.
C6_IdInvariant ==
    /\ \A i, j \in 1..Len(expenses) : i < j => expenses[i].id < expenses[j].id
    /\ AfterAdd => expenses[Len(expenses)].id = MaxIdOf(Pre) + 1
    /\ AfterLoad =>
          \A k \in (Len(Pre) + 1)..Len(expenses) :
              expenses[k].id = MaxIdOf(SubSeq(expenses, 1, k - 1)) + 1

\* An add after a deletion, on a ledger whose ids no longer count its records.
C6_Witness ==
    /\ AfterAdd
    /\ deleted > 0
    /\ Pre # <<>>
    /\ MaxIdOf(Pre) > Len(Pre)

\* C7: no handler reads the last element of an empty ledger; a sweep of an
\* empty ledger leaves it empty, and the first record of an empty ledger gets
\* id 1.
C7_EmptyLedgerSafe ==
    /\ ~fault
    /\ (AfterLoad /\ Pre = <<>>) => expenses = <<>>
    /\ (lastOp.op = "add" /\ Pre = <<>>) => (Len(expenses) = 1 /\ expenses[1].id = 1)

\* A record added to a ledger that deletions have emptied.
C7_Witness ==
    /\ lastOp.op = "add"
    /\ Pre = <<>>
    /\ deleted > 0
    /\ Len(expenses) = 1

\* C8: with permission granted, a sweep notifies once for each record that is
\* recurring and due exactly today, and not at all for any other record.
C8_NotifyOnlyDueToday ==
    (AfterLoad /\ lastOp.arg.perm = "granted") =>
        \A i \in 1..Len(Pre) :
            Cardinality({n \in 1..Len(notifications) : notifications[n].rec = i})
                = IF Pre[i].recurring /\ Pre[i].nextDate = SweptToday THEN 1 ELSE 0

RECURSIVE SpentIn(_, _, _, _)
SpentIn(ledger, cat, m, y) ==
    IF ledger = <<>> THEN 0
    ELSE SpentIn(Tail(ledger), cat, m, y)
         + (IF Head(ledger).category = cat /\ Head(ledger).date[1] = y
               /\ Head(ledger).date[2] = m + 1
            THEN Head(ledger).amount ELSE 0)

\* C10: the overview holds one item per category with a ceiling and none for
\* another category; in each item spent is the sum of amount over the records
\* of the category dated in the month and year of the overview, remaining is
\* ceiling - spent and percentage is min(100, 100 * spent / ceiling).
C10_BudgetStatus ==
    /\ Len(budgetOverview) = Len(budgets)
    /\ \A i, j \in 1..Len(budgetOverview) :
          i # j => budgetOverview[i].category # budgetOverview[j].category
    /\ \A i \in 1..Len(budgetOverview) :
          LET item == budgetOverview[i]
              ceiling == budgets[i].amount
              spent == SpentIn(expenses, item.category, item.month, item.year)
          IN /\ item.category = budgets[i].category
             /\ item.spent = spent
             /\ item.remaining = ceiling - spent
             /\ ~item.percentage.nan
             /\ item.percentage.num * ceiling
                   = item.percentage.den
                       * (IF 100 * spent < 100 * ceiling THEN 100 * spent ELSE 100 * ceiling)

C12_ZeroCeiling ==
    \A i \in 1..Len(budgetOverview) :
        budgetOverview[i].budgetAmount = 0 =>
            /\ ~budgetOverview[i].percentage.nan
            /\ budgetOverview[i].percentage.num = 100 * budgetOverview[i].percentage.den
            /\ budgetOverview[i].statusClass = "danger"

\* The inputs C13 names: a form with an empty name, an amount that is not a
\* positive number, no date, or a category, subcategory or payment method left
\* at "chooseOne"; a budget amount that is not a positive number.
RejectedForm(form) ==
    \/ form.name = ""
    \/ ~GT(ToNumber(form.amount), 0)
    \/ form.date = NullDate
    \/ form.category = "chooseOne"
    \/ form.subcategory = "chooseOne"
    \/ form.paymentType = "chooseOne"
RejectedBudget(b) == ~GT(parseFloat(b[2]), 0)

\* C13: addExpense never accepts such a form and setBudget never accepts such
\* an amount: the call shows one alert and leaves the ledger, the budgets and
\* both slots of the store as they were.
C13_RejectedIsNoOp ==
    /\ lastOp.op = "add" => ~RejectedForm(lastOp.arg)
    /\ lastOp.op = "budget" => ~RejectedBudget(<<lastOp.arg.category, lastOp.arg.text>>)
    /\ lastOp.op = "rejected" =>
          /\ expenses = lastOp.pre.expenses
          /\ budgets = lastOp.pre.budgets
          /\ store = lastOp.pre.store
          /\ lastOp.arg \in {"Please fill in all fields correctly.",
                             "Please select a category and enter a valid budget amount"}

\* A form rejected on a page that holds records and a budget.
C13_Witness ==
    /\ lastOp.op = "rejected"
    /\ lastOp.arg = "Please fill in all fields correctly."
    /\ expenses # <<>>
    /\ budgets # <<>>

\* C14: after the startup sweep, an accepted addExpense, deleteExpense and an
\* accepted setBudget the slot 'expenses' holds the whole ledger in memory,
\* appended clones and advanced nextDates included, and the slot 'budgets' the
\* whole budget map; while a reload is pending after migrateOldData the slot
\* holds the whole migrated ledger.
C14_WholeStatePersisted ==
    /\ (lastOp.op \in {"load", "add", "delete", "budget"} /\ ~loading)
          => (store.expenses = expenses /\ store.budgets = budgets)
    /\ (lastOp.op = "load" /\ loading)
          => (store.expenses = migrateOldData(expenses) /\ store.budgets = budgets)

\* A sweep that appended a clone and advanced a nextDate, on a page with a
\* budget.
C14_Witness ==
    /\ AfterLoad
    /\ Len(expenses) > Len(Pre)
    /\ \E i \in 1..Len(Pre) :
          Has(Pre[i], "nextDate") /\ expenses[i].nextDate # Pre[i].nextDate
    /\ budgets # <<>>
    /\ store.expenses = expenses

\* C15: the ledger that the sweep has read and saved and that the display and
\* the budget overview have read, which is the ledger in memory once the
\* script has run, holds no record of the old format: migration came first.
C15_MigrationFirst ==
    AfterLoad => \A i \in 1..Len(expenses) : ~Legacy(expenses[i])

\* A field of a record is set: the record has it and it is not null.
IsRecurring(rec) == Has(rec, "recurring") /\ rec.recurring
FrequencySet(rec) == Has(rec, "frequency") /\ rec.frequency # NullFreq
NextDateSet(rec) == Has(rec, "nextDate") /\ rec.nextDate # NullDate

\* C16: in every ledger each record has frequency and nextDate set exactly
\* when it is recurring; the record addExpense appends for a recurring form
\* dated D has the form's frequency and nextDate = nextOccurrence(D, frequency)
\* (D + 1 day for daily, D + 7 days for weekly), and for another form null
\* frequency and null nextDate.
C16_RecurrenceFields ==
    /\ \A i \in 1..Len(expenses) :
          /\ IsRecurring(expenses[i]) = FrequencySet(expenses[i])
          /\ IsRecurring(expenses[i]) = NextDateSet(expenses[i])
    /\ AfterAdd =>
          LET rec == expenses[Len(expenses)]
              form == lastOp.arg
          IN IF form.recurring
             THEN /\ rec.recurring
                  /\ rec.frequency = form.recurrence
                  /\ rec.nextDate = nextOccurrence(form.date, rec.frequency)
                  /\ form.recurrence = "daily" => rec.nextDate = PlusDays(form.date, 1)
                  /\ form.recurrence = "weekly" => rec.nextDate = PlusDays(form.date, 7)
             ELSE /\ ~rec.recurring
                  /\ rec.frequency = NullFreq
                  /\ rec.nextDate = NullDate

\* A recurring daily expense added to a ledger that holds a migrated record
\* (no recurrence fields at all).
C16_Witness ==
    /\ AfterAdd
    /\ lastOp.arg.recurring
    /\ expenses[Len(expenses)].nextDate = PlusDays(lastOp.arg.date, 1)
    /\ \E i \in 1..Len(expenses) :
          Has(expenses[i], "category") /\ ~Has(expenses[i], "recurring")

\* C17: every record of a ledger grown from the empty ledger by addExpense,
\* sweeps and deleteExpense, reloaded from the store or not, has amount > 0.
C17_PositiveAmounts ==
    \A i \in 1..Len(expenses) : expenses[i].amount > 0

\* A sweep has appended a clone to a ledger of added records.
C17_Witness ==
    /\ AfterLoad
    /\ added > 0
    /\ Len(expenses) > Len(Pre)
    /\ origin[Len(expenses)].clone
    /\ expenses[Len(expenses)].amount = 45

\* The ceilings a budget map holds for a category.
CeilingsOf(bmap, category) ==
    {bmap[i].amount : i \in {j \in 1..Len(bmap) : bmap[j].category = category}}

\* C18: after an accepted setBudget(category, amount) the category has the one
\* ceiling amount, whatever it had before, every other category has what it
\* had, and the ledger is as before; from the empty map on, no category has two
\* ceilings and every ceiling is > 0.
C18_BudgetMap ==
    /\ lastOp.op = "budget" =>
          /\ CeilingsOf(budgets, lastOp.arg.category) = {lastOp.arg.amount}
          /\ \A c \in Categories \ {lastOp.arg.category} :
                CeilingsOf(budgets, c) = CeilingsOf(lastOp.arg.was, c)
          /\ Len(budgets) = Cardinality({budgets[i].category : i \in 1..Len(budgets)})
          /\ expenses = lastOp.pre
    /\ \A i, j \in 1..Len(budgets) : i # j => budgets[i].category # budgets[j].category
    /\ \A i \in 1..Len(budgets) : budgets[i].amount > 0

\* A ceiling of 100 replaced by 50 while another category keeps its ceiling,
\* on a page with records.
C18_Witness ==
    /\ lastOp.op = "budget"
    /\ CeilingsOf(lastOp.arg.was, lastOp.arg.category) = {100}
    /\ lastOp.arg.amount = 50
    /\ Len(budgets) = 2
    /\ expenses # <<>>

\* C19: updateBudgetOverview leaves the ledger (records, order, length), the
\* budget map and both slots of the store as they were.
C19_OverviewReadOnly ==
    lastOp.op = "overview" =>
        /\ expenses = lastOp.pre.expenses
        /\ budgets = lastOp.pre.budgets
        /\ store = lastOp.pre.store

\* The overview computed again in a later month, for two ceilings and a ledger
\* with records, one of them not of that month.
C19_Witness ==
    /\ lastOp.op = "overview"
    /\ Len(budgetOverview) = 2
    /\ Len(expenses) >= 2
    /\ \E i \in 1..Len(expenses) :
          ~InMonth(expenses[i], budgetOverview[1].month, budgetOverview[1].year)

\* C20: a sweep leaves every record that was due with a nextDate strictly
\* later than the one it had, whatever its frequency, so that sweeps repeated
\* with the same today come to one that appends nothing.
C20_SweepAdvances ==
    AfterLoad =>
        \A i \in 1..Len(Pre) :
            (IsRecurring(Pre[i]) /\ DueRecord(Pre[i], SweptToday))
                => (/\ expenses[i].nextDate # Pre[i].nextDate
                    /\ StrLE(Pre[i].nextDate, expenses[i].nextDate))

\* C21: ids are given in strictly increasing order over the life of the ledger:
\* every id given to a new record, by addExpense or by a sweep, is greater than
\* every id given before it, deletions included, so that the id of a deleted
\* record is never given again.  The program takes the id after the LAST
\* record's (lines 121 and 306) or 1 for an empty ledger, so deleting the last
\* record frees its id.
C21_IdsNeverReused ==
    \A i \in 1..Len(issued) : \A j \in 1..Len(issued) :
        i < j => issued[i] < issued[j]

\* C22: the migration of the old format is complete and happens once: when the
\* script has run to its end and no reload is pending, every persisted record
\* has a category, the records the migration wrote carry category 'Other' and
\* subcategory 'Miscellaneous', and the next load has nothing to migrate,
\* wherever in the persisted ledger the records without category were.  The
\* program looks at the first record only (line 705), and never reaches the
\* migration when rendering throws (line 368).
C22_MigrationComplete ==
    (AfterLoad /\ ~loading) =>
        /\ \A i \in 1..Len(store.expenses) :
              /\ Has(store.expenses[i], "category")
              /\ ~Has(store.expenses[i], "recurring")
                    => /\ store.expenses[i].category = "Other"
                       /\ store.expenses[i].subcategory = "Miscellaneous"
        /\ ~NeedsMigration(store.expenses)

\* The records of a ledger with an id other than id, in ledger order.
WithoutId(ledger, id) == SelectSeq(ledger, LAMBDA e : e.id # id)

\* C23: deleteExpense(id) removes every record whose id is id and no other
\* record, keeps the fields and the relative order of the records that stay,
\* and leaves the ledger as it was when no record has that id; no record with
\* that id is left behind by the loop.  The ledger after the call is the ledger
\* before it without the records of that id, in memory and in localStorage.
C23_DeleteExact ==
    lastOp.op = "delete" =>
        /\ expenses = WithoutId(Pre, lastOp.arg)
        /\ store.expenses = expenses
        /\ \A i \in 1..Len(expenses) : expenses[i].id # lastOp.arg
        /\ (\A i \in 1..Len(Pre) : Pre[i].id # lastOp.arg) => expenses = Pre

\* A record that is neither the first nor the last of three has been deleted.
C23_Witness ==
    /\ lastOp.op = "delete"
    /\ Len(Pre) = 3
    /\ Pre[2].id = lastOp.arg
    /\ Len(expenses) = 2

\* deleteExpense has been called with an id no record of a ledger of two has.
C23_WitnessNoSuchId ==
    /\ lastOp.op = "delete"
    /\ Len(Pre) = 2
    /\ \A i \in 1..Len(Pre) : Pre[i].id # lastOp.arg

\* The positions of the records of a ledger that are due, records of the old
\* format included (they are never due), in ledger order.
DueAmong(ledger, today) ==
    SelectSeq([i \in 1..Len(ledger) |-> i],
              LAMBDA i : IsRecurring(ledger[i]) /\ DueRecord(ledger[i], today))

\* C24: the frame of a sweep.  The records the ledger had stay where they were,
\* none removed; a record that was not due has every field as before, a record
\* that was due differs from what it was in nextDate at most; the clones come
\* after all of them, one for each due record and in the order of their
\* sources, each with its source's fields but id, date and nextDate; and the
\* budget map, in memory and in localStorage, is the one that was persisted.
C24_SweepFrame ==
    AfterLoad =>
        LET due == DueAmong(Pre, SweptToday) IN
        /\ Len(expenses) = Len(Pre) + Len(due)
        /\ \A i \in 1..Len(Pre) :
              IF \E k \in 1..Len(due) : due[k] = i
              THEN expenses[i] = [Pre[i] EXCEPT !.nextDate = expenses[i].nextDate]
              ELSE expenses[i] = Pre[i]
        /\ \A k \in 1..Len(due) :
              LET cloned == expenses[Len(Pre) + k] IN
              cloned = [Pre[due[k]] EXCEPT !.id = cloned.id,
                                           !.date = cloned.date,
                                           !.nextDate = cloned.nextDate]
        /\ budgets = lastOp.arg.budgets
        /\ store.budgets = lastOp.arg.budgets

\* A sweep of a ledger with a record that was due and one that was not, with
\* ceilings in the budget map: a clone has been appended.
C24_Witness ==
    /\ AfterLoad
    /\ budgets # <<>>
    /\ Len(DueAmong(Pre, SweptToday)) >= 1
    /\ Len(DueAmong(Pre, SweptToday)) < Len(Pre)
    /\ Len(expenses) > Len(Pre)

\* A sweep of a ledger with two due records of different frequencies.
C24_WitnessTwoSources ==
    /\ AfterLoad
    /\ LET due == DueAmong(Pre, SweptToday)
       IN /\ Len(due) >= 2
          /\ Pre[due[1]].frequency # Pre[due[2]].frequency

====
